---- MODULE Spec2Model ----
(***************************************************************************)
(* tg-ai-companion: the request bridging pipeline.                         *)
(*                                                                         *)
(* An inbound request passes the bearer-token validator, is deserialized   *)
(* by the route's extractors, and is then handled by chat_endpoint or      *)
(* telegram_webhook, which call the completion provider and (webhook       *)
(* route) the Telegram send-API.  Each handler is split at its await       *)
(* points; requests are handled concurrently in independent slots.         *)
(***************************************************************************)
EXTENDS Integers, Sequences, FiniteSets, TLC

\* ------------------------------------------------------------------ bounds

\* Longest run of whitespace put before and after a text.
MaxPad == 1

\* Requests the server accepts in one behaviour.
MaxRequests == 2

\* ------------------------------------------------------------ value domains

\* Option<T>: None is the empty tuple, Some(x) the one-element tuple.
None == <<>>

Some(x) == <<x>>

\* The request slots (one task per inbound request, run concurrently).
Reqs == {"r1", "r2"}

\* Strings the code inspects are sequences of characters.
RECURSIVE Spaces(_)
Spaces(n) == IF n = 0 THEN <<>> ELSE <<" ">> \o Spaces(n - 1)

\* Blank texts, and a word with any padding on either side.
Texts ==
    {Spaces(n) : n \in 0..MaxPad}
    \cup {Spaces(m) \o <<"a">> \o Spaces(n) : m, n \in 0..MaxPad}

\* Bearer tokens a client may present: the right one and one differing in case only.
Tokens == {<<"t", "k">>, <<"T", "k">>}

\* Values of the API_TOKEN environment variable: set, or not set.
ApiTokenValues == {Some(<<"t", "k">>), None}

ChatIds == {7, 9}

\* Texts the completion provider may generate.
Replies == {"Hi back!", " Echo: Hello bot "}

\* ------------------------------------------------------------ str::trim

RECURSIVE trim_start(_)
trim_start(s) == IF Len(s) > 0 /\ Head(s) = " " THEN trim_start(Tail(s)) ELSE s

RECURSIVE trim_end(_)
trim_end(s) == IF Len(s) > 0 /\ s[Len(s)] = " " THEN trim_end(SubSeq(s, 1, Len(s) - 1)) ELSE s

trim(s) == trim_end(trim_start(s))

is_empty(s) == Len(s) = 0

\* ------------------------------------------------------------ responses

Response(status, body) == [status |-> status, body |-> body]

NoResponse == Response(0, "")

\* The Option<BearerAuth> values a request may carry.
Credentials == {None} \cup {Some(t) : t \in Tokens}

\* ------------------------------------------------------------ Credential Gate

\* env::var("API_TOKEN").unwrap_or_default(): the empty string when not set.
unwrap_or_default(v) == IF v = None THEN <<>> ELSE v[1]

\* str::to_lowercase on the characters tokens are made of.
to_lowercase(s) == [k \in 1..Len(s) |-> IF s[k] = "T" THEN "t" ELSE s[k]]

\* Faulty variant of validator: the tokens are compared ignoring case.
validator_ignore_case(credentials, api_token) ==
    IF credentials = None
    THEN [ok |-> FALSE, response |-> Response(400, "No Bearer Header")]
    ELSE IF to_lowercase(credentials[1]) # to_lowercase(unwrap_or_default(api_token))
         THEN [ok |-> FALSE, response |-> Response(400, "Authentication Error")]
         ELSE [ok |-> TRUE, response |-> NoResponse]

\* validator: Ok(req), or Err with a 400 response.
validator(credentials, api_token) ==
    IF credentials = None
    THEN [ok |-> FALSE, response |-> Response(400, "No Bearer Header")]
    ELSE IF credentials[1] # unwrap_or_default(api_token)
         THEN [ok |-> FALSE, response |-> Response(400, "Authentication Error")]
         ELSE [ok |-> TRUE, response |-> NoResponse]

\* ------------------------------------------------------------ wiring

\* main: the validator wraps the whole App, and the /chat scope once more;
\* both clients are registered.
Production == [auth |-> TRUE, telegram_api |-> TRUE, real |-> TRUE]

\* The handler tests: the handler alone on its route, with a test double of
\* the completion provider as the only application data and no middleware.
HandlerTest == [auth |-> FALSE, telegram_api |-> FALSE, real |-> FALSE]

Wirings == {Production, HandlerTest}

Routes == {"chat", "telegram"}

\* Faulty variant of Gates: only the /chat scope is wrapped, so the webhook
\* route is reached without the validator.
Gates_scope_only(w, route) ==
    IF ~w.auth THEN 0
    ELSE IF route = "chat" THEN 1
    ELSE 0

\* Faulty variant of Gates: no validator in front of any route.
Gates_none(w, route) == 0

\* How many times the validator runs before the route's handler.
Gates(w, route) ==
    IF ~w.auth THEN 0
    ELSE IF route = "chat" THEN 2
    ELSE 1

\* ------------------------------------------------------------ inbound bodies

\* A JSON object body, by the keys the models read; an absent key is None.
EmptyBody == [prompt |-> None, update_id |-> None, message |-> None]

ChatBodies == {[EmptyBody EXCEPT !.prompt = p] : p \in {None} \cup {Some(t) : t \in Texts}}

Messages ==
    [message_id : {None, Some(1)},
     chat : {None} \cup {Some([id |-> c]) : c \in ChatIds},
     text : {None} \cup {Some(t) : t \in Texts}]

TelegramBodies ==
    {[EmptyBody EXCEPT !.update_id = u, !.message = m] :
        u \in {None, Some(1)}, m \in {None} \cup {Some(x) : x \in Messages}}

\* #[derive(Deserialize)] ChatRequest: `prompt` is required.
ChatRequestParses(b) == b.prompt # None

\* #[derive(Deserialize)] TelegramMessage: `message_id` and `chat` are
\* required, `text` is optional.
TelegramMessageParses(m) == m.message_id # None /\ m.chat # None

\* #[derive(Deserialize)] TelegramUpdate: `update_id` is required, `message`
\* is optional and, when present, must itself parse.
TelegramUpdateParses(b) ==
    /\ b.update_id # None
    /\ b.message # None => TelegramMessageParses(b.message[1])

\* What the extractors answer when one of them fails.
JsonError == Response(400, "Json deserialize error")

DataError == Response(500, "Requested application data is not configured correctly")

\* The responses with which the extraction of chat_endpoint's arguments
\* (Json<ChatRequest>, Data<dyn ChatApi>) can fail; empty when it succeeds.
ChatExtractErrors(w, b) == IF ChatRequestParses(b) THEN {} ELSE {JsonError}

\* The same for telegram_webhook's arguments (Json<TelegramUpdate>,
\* Data<dyn ChatApi>, Data<dyn TelegramApi>): when both the body and the
\* application data fail, the answer is that of whichever extractor is
\* polled to an error first.
TelegramExtractErrors(w, b) ==
    (IF TelegramUpdateParses(b) THEN {} ELSE {JsonError})
    \cup (IF w.telegram_api THEN {} ELSE {DataError})

\* ------------------------------------------------------------ Inbound Normalizer

\* Faulty variant of PromptIsBlank: the prompt is tested without trimming.
PromptIsBlank_untrimmed(b) == is_empty(b.prompt[1])

\* chat_endpoint: payload.prompt.trim().is_empty()
PromptIsBlank(b) == is_empty(trim(b.prompt[1]))

\* Faulty variant of ChatIdAndPrompt: the message's id is taken for the
\* chat's id.
ChatIdAndPrompt_message_id(b) ==
    IF b.message = None THEN None
    ELSE LET m == b.message[1] IN
         IF m.text = None THEN None
         ELSE IF is_empty(trim(m.text[1])) THEN None
         ELSE Some([chat_id |-> m.message_id[1], prompt |-> m.text[1]])

\* telegram_webhook: the (chat_id, prompt) pair of the update, None when the
\* update has no message, no text, or a blank text.
ChatIdAndPrompt(b) ==
    IF b.message = None THEN None
    ELSE LET m == b.message[1] IN
         IF m.text = None THEN None
         ELSE IF is_empty(trim(m.text[1])) THEN None
         ELSE Some([chat_id |-> m.chat[1].id, prompt |-> m.text[1]])

\* ------------------------------------------------------------ Completion Client

\* What the completion provider may answer to the one POST of call_chat_api:
\* no answer at all (transport failure), or a status with a body that is not
\* JSON, JSON without choices[0].message.content, JSON with a non-string
\* there, or JSON with a string there.
ProviderAnswers ==
    {[arrived |-> FALSE, status |-> 0, json |-> "none", content |-> ""]}
    \cup [arrived : {TRUE}, status : {200, 500},
          json : {"invalid", "no_content", "non_string"}, content : {""}]
    \cup [arrived : {TRUE}, status : {200, 500}, json : {"string"}, content : Replies]

Ok(text) == [ok |-> TRUE, text |-> text, err |-> ""]

Err(e) == [ok |-> FALSE, text |-> "", err |-> e]

\* Faulty variant of call_chat_api: a missing or non-string content is
\* replaced by an empty text.
call_chat_api_default_content(answer) ==
    IF ~answer.arrived THEN Err("error sending request")
    ELSE IF answer.json = "invalid" THEN Err("error decoding response body")
    ELSE IF answer.json # "string" THEN Ok("")
    ELSE Ok(answer.content)

\* Faulty variant of call_chat_api: a non-2xx status is an error whatever
\* the body holds.
call_chat_api_checks_status(answer) ==
    IF ~answer.arrived THEN Err("error sending request")
    ELSE IF answer.status \notin 200..299 THEN Err("HTTP status client error")
    ELSE IF answer.json = "invalid" THEN Err("error decoding response body")
    ELSE IF answer.json # "string" THEN Err("Missing content in the response!")
    ELSE Ok(answer.content)

\* RealChatApi::call_chat_api from the provider's answer on: send()?,
\* json()?, then choices[0].message.content as a string.
call_chat_api(answer) ==
    IF ~answer.arrived THEN Err("error sending request")
    ELSE IF answer.json = "invalid" THEN Err("error decoding response body")
    ELSE IF answer.json # "string" THEN Err("Missing content in the response!")
    ELSE Ok(answer.content)

\* ------------------------------------------------------------ Delivery Client

\* What the platform may answer to the one POST of send_telegram_message:
\* nothing (transport failure), or a status and a body; reading the body of
\* an answer that arrived may fail as well.
PlatformAnswers ==
    {[arrived |-> FALSE, status |-> 0, body |-> "", readable |-> FALSE]}
    \cup [arrived : {TRUE}, status : {200, 299}, body : {"ok"}, readable : {TRUE}]
    \cup [arrived : {TRUE}, status : {300, 400}, body : {"chat not found"},
          readable : {TRUE}]
    \cup {[arrived |-> TRUE, status |-> 400, body |-> "chat not found",
           readable |-> FALSE]}

\* response.text().await.unwrap_or_default()
text_unwrap_or_default(answer) == IF answer.readable THEN answer.body ELSE ""

\* Faulty variant of is_success: only 200 counts.
is_success_only_200(status) == status = 200

\* StatusCode::is_success
is_success(status) == 200 <= status /\ status <= 299

\* RealTelegramApi::send_telegram_message from the platform's answer on.
send_telegram_message(answer) ==
    IF ~answer.arrived
    THEN [ok |-> FALSE, kind |-> "HTTP error", status |-> 0, body |-> ""]
    ELSE IF is_success(answer.status)
         THEN [ok |-> TRUE, kind |-> "", status |-> 0, body |-> ""]
         ELSE [ok |-> FALSE, kind |-> "Telegram API error",
               status |-> answer.status, body |-> text_unwrap_or_default(answer)]

\* ------------------------------------------------------------ handler responses

\* chat_endpoint, the rejection of a blank prompt.
PromptEmptyResponse == Response(400, "Prompt cannot be empty")

\* telegram_webhook, the rejection of an update without a usable text.
NoMessageTextResponse == Response(400, "No Message Text")

\* Both handlers, after call_chat_api returned Err.
ChatApiErrorResponse == Response(500, "Error calling chat API")

\* Faulty variant of ChatOkResponse: the acknowledgement of the webhook
\* handler is answered instead of the generated text.
ChatOkResponse_ack(text) == Response(200, "Message sent")

\* chat_endpoint, after call_chat_api returned Ok(text).
ChatOkResponse(text) == Response(200, text)

\* Faulty variant of AfterChatApi: telegram_webhook goes on to
\* send_telegram_message whatever call_chat_api returned.
AfterChatApi_always_deliver(route, result) ==
    IF route = "chat" THEN (IF result.ok THEN "reply" ELSE "error")
    ELSE "deliver"

\* What the handler awaiting call_chat_api does with its result: answer with
\* the error, answer with the text (chat_endpoint), or pass the text on to
\* send_telegram_message (telegram_webhook).
AfterChatApi(route, result) ==
    IF ~result.ok THEN "error"
    ELSE IF route = "chat" THEN "reply"
    ELSE "deliver"

\* Faulty variant of TelegramSentResponse: a failed delivery is answered
\* like a failed completion.
TelegramSentResponse_as_chat_error(result) ==
    IF result.ok THEN Response(200, "Message sent")
    ELSE Response(500, "Error calling chat API")

\* Faulty variant of TelegramSentResponse: the platform's error body is
\* passed on to the caller.
TelegramSentResponse_echo_error(result) ==
    IF result.ok THEN Response(200, "Message sent")
    ELSE Response(500, result.body)

\* telegram_webhook, after send_telegram_message returned.
TelegramSentResponse(result) ==
    IF result.ok THEN Response(200, "Message sent")
    ELSE Response(500, "Failed to send message to Telegram")

\* ------------------------------------------------------------ environment and startup

\* The environment with every variable the program reads set.
FullEnv ==
    [SERVER_HOST_NAME |-> Some(<<"h">>),
     SERVER_HOST_PORT |-> Some(<<"8">>),
     OPEN_AI_URL |-> Some(<<"u", "/">>),
     OPEN_AI_MODEL |-> Some(<<"m">>),
     OPEN_AI_API_KEY |-> Some(<<"k">>),
     TELEGRAM_API_BASE_URL |-> Some(<<"g">>),
     TELEGRAM_BOT_TOKEN |-> Some(<<"b">>),
     API_TOKEN |-> Some(<<"t", "k">>)]

\* The variables the spec calls required (OPEN_AI_API_KEY is optional).
RequiredNames ==
    {"SERVER_HOST_NAME", "SERVER_HOST_PORT", "OPEN_AI_URL", "OPEN_AI_MODEL",
     "TELEGRAM_API_BASE_URL", "TELEGRAM_BOT_TOKEN", "API_TOKEN"}

\* The variables the clients' constructors test for blankness.
ClientNames ==
    {"OPEN_AI_URL", "OPEN_AI_MODEL", "TELEGRAM_API_BASE_URL", "TELEGRAM_BOT_TOKEN"}

\* The environments a process is started in: complete, or with one required
\* variable not set, or with one of the clients' variables set to a blank
\* value.
Envs ==
    {FullEnv}
    \cup {[FullEnv EXCEPT ![n] = None] : n \in RequiredNames}
    \cup {[FullEnv EXCEPT ![n] = Some(<<" ">>)] : n \in ClientNames}

\* A variable is missing when env::var fails or, for the clients, when its
\* value is blank.
Unusable(v) == v = None \/ is_empty(trim(v[1]))

\* RealChatApi::new_from_env: Err, or the client's fields.
RealChatApi_new_from_env(e) ==
    IF Unusable(e.OPEN_AI_URL) \/ Unusable(e.OPEN_AI_MODEL)
    THEN [ok |-> FALSE, base_url |-> <<>>, model |-> <<>>, api_key |-> None]
    ELSE [ok |-> TRUE, base_url |-> e.OPEN_AI_URL[1], model |-> e.OPEN_AI_MODEL[1],
          api_key |-> e.OPEN_AI_API_KEY]

\* RealTelegramApi::new_from_env: Err, or the client's fields.
RealTelegramApi_new_from_env(e) ==
    IF Unusable(e.TELEGRAM_API_BASE_URL) \/ Unusable(e.TELEGRAM_BOT_TOKEN)
    THEN [ok |-> FALSE, base_url |-> <<>>, token |-> <<>>]
    ELSE [ok |-> TRUE, base_url |-> e.TELEGRAM_API_BASE_URL[1],
          token |-> e.TELEGRAM_BOT_TOKEN[1]]

\* main gets as far as serving requests: the two expect()s on host and port
\* pass, and so do the expect()s of init_chat_routes and
\* init_telegram_routes on the clients' constructors.
main(e) ==
    /\ e.SERVER_HOST_NAME # None
    /\ e.SERVER_HOST_PORT # None
    /\ RealChatApi_new_from_env(e).ok
    /\ RealTelegramApi_new_from_env(e).ok

\* str::trim_end_matches(c)
RECURSIVE trim_end_matches(_, _)
trim_end_matches(s, c) ==
    IF Len(s) > 0 /\ s[Len(s)] = c THEN trim_end_matches(SubSeq(s, 1, Len(s) - 1), c) ELSE s

\* The one POST of RealChatApi::call_chat_api, by a client built from e.
ChatPost(e) ==
    LET api == RealChatApi_new_from_env(e) IN
    [to |-> "provider",
     url |-> trim_end_matches(api.base_url, "/") \o <<"/v1/chat/completions">>,
     authorization |-> IF api.api_key = None THEN None
                       ELSE Some(<<"Bearer ">> \o api.api_key[1])]

\* The one POST of RealTelegramApi::send_telegram_message, by a client built
\* from e.
TelegramPost(e) ==
    LET api == RealTelegramApi_new_from_env(e) IN
    [to |-> "platform",
     url |-> api.base_url \o <<"/bot">> \o api.token \o <<"/sendMessage">>,
     authorization |-> None]

\* ------------------------------------------------------------ state

VARIABLES
    env,        \* the process environment
    boot,       \* the environment as it was when the process started
    running,    \* main got past startup and serves requests
    wiring,     \* which middleware and clients the App was built with
    served,     \* requests accepted so far
    pc,         \* per request: where its task stands
    request,    \* per request: route and Option<BearerAuth>
    gates,      \* per request: validator runs still ahead of the handler
    body,       \* per request: the JSON body, once the extractors read it
    handled,    \* per request: the handler's own code was entered
    asked,      \* per request: prompts passed to call_chat_api, in order
    provider,   \* per request: the provider's answer, once there
    completion, \* per request: what call_chat_api returned
    sent,       \* per request: (chat_id, text) passed to send_telegram_message
    platform,   \* per request: the platform's answer, once there
    delivery,   \* per request: what send_telegram_message returned
    response,   \* per request: the HTTP response, once made
    posts,      \* per request: the HTTP requests its real clients sent
    stages      \* per request: the pipeline stages it entered, in order

vars ==
    <<env, boot, running, wiring, served, pc, request, gates, body, handled, asked,
      provider, completion, sent, platform, delivery, response, posts, stages>>

NoRequest == [route |-> "chat", credentials |-> None]

Init ==
    /\ wiring \in Wirings
    /\ env \in (IF wiring.real THEN Envs ELSE {FullEnv})
    /\ env.API_TOKEN \in ApiTokenValues
    /\ boot = env
    /\ running = (wiring.real => main(env))
    /\ served = 0
    /\ pc = [i \in Reqs |-> "idle"]
    /\ request = [i \in Reqs |-> NoRequest]
    /\ gates = [i \in Reqs |-> 0]
    /\ body = [i \in Reqs |-> None]
    /\ handled = [i \in Reqs |-> FALSE]
    /\ asked = [i \in Reqs |-> <<>>]
    /\ provider = [i \in Reqs |-> None]
    /\ completion = [i \in Reqs |-> None]
    /\ sent = [i \in Reqs |-> <<>>]
    /\ platform = [i \in Reqs |-> None]
    /\ delivery = [i \in Reqs |-> None]
    /\ response = [i \in Reqs |-> None]
    /\ posts = [i \in Reqs |-> <<>>]
    /\ stages = [i \in Reqs |-> <<>>]

\* The request is answered with r and its task ends.
Respond(i, r) ==
    /\ response' = [response EXCEPT ![i] = Some(r)]
    /\ pc' = [pc EXCEPT ![i] = "responded"]

\* A request arrives: its head (route, Authorization header) is read and it
\* is handed to the outermost middleware, or straight to the route when the
\* App has none.  The handler tests send no Authorization header.
Receive(i) ==
    /\ running
    /\ pc[i] = "idle"
    /\ served < MaxRequests
    /\ \E route \in Routes, credentials \in Credentials :
        /\ wiring.auth \/ credentials = None
        /\ request' = [request EXCEPT ![i] = [route |-> route, credentials |-> credentials]]
        /\ gates' = [gates EXCEPT ![i] = Gates(wiring, route)]
        /\ pc' = [pc EXCEPT ![i] = IF Gates(wiring, route) = 0 THEN "route" ELSE "auth"]
        /\ stages' = [stages EXCEPT ![i] =
                IF Gates(wiring, route) = 0 THEN <<>> ELSE <<"AUTH">>]
    /\ served' = served + 1
    /\ UNCHANGED <<env, boot, running, wiring, body, handled, asked, provider,
                   completion, sent, platform, delivery, response, posts>>

\* Faulty variant of Validator: the first run takes the Authorization header
\* off the request, so a second run on the same request finds no credentials.
Validator_header_consumed(i) ==
    /\ pc[i] = "auth"
    /\ LET seen == IF gates[i] < Gates(wiring, request[i].route)
                   THEN None ELSE request[i].credentials
           v == validator(seen, env.API_TOKEN)
       IN
        IF v.ok
        THEN /\ gates' = [gates EXCEPT ![i] = @ - 1]
             /\ pc' = [pc EXCEPT ![i] = IF gates[i] = 1 THEN "route" ELSE "auth"]
             /\ UNCHANGED response
        ELSE /\ Respond(i, v.response)
             /\ UNCHANGED gates
    /\ UNCHANGED <<env, boot, running, wiring, served, request, body, handled, asked,
                   provider, completion, sent, platform, delivery, posts, stages>>

\* One run of the validator middleware on the request.
Validator(i) ==
    /\ pc[i] = "auth"
    /\ LET v == validator(request[i].credentials, env.API_TOKEN) IN
        IF v.ok
        THEN /\ gates' = [gates EXCEPT ![i] = @ - 1]
             /\ pc' = [pc EXCEPT ![i] = IF gates[i] = 1 THEN "route" ELSE "auth"]
             /\ UNCHANGED response
        ELSE /\ Respond(i, v.response)
             /\ UNCHANGED gates
    /\ UNCHANGED <<env, boot, running, wiring, served, request, body, handled, asked,
                   provider, completion, sent, platform, delivery, posts, stages>>

\* POST /chat reaches its route: the extractors read the body b, and
\* chat_endpoint runs up to its await on call_chat_api.
chat_endpoint(i) ==
    /\ pc[i] = "route"
    /\ request[i].route = "chat"
    /\ \E b \in ChatBodies :
        /\ body' = [body EXCEPT ![i] = Some(b)]
        /\ \/ /\ ChatExtractErrors(wiring, b) # {}
              /\ \E r \in ChatExtractErrors(wiring, b) : Respond(i, r)
              /\ stages' = [stages EXCEPT ![i] = Append(@, "VALIDATE")]
              /\ UNCHANGED <<handled, asked, posts>>
           \/ /\ ChatExtractErrors(wiring, b) = {}
              /\ handled' = [handled EXCEPT ![i] = TRUE]
              /\ IF PromptIsBlank(b)
                 THEN /\ Respond(i, PromptEmptyResponse)
                      /\ stages' = [stages EXCEPT ![i] = Append(@, "VALIDATE")]
                      /\ UNCHANGED <<asked, posts>>
                 ELSE /\ asked' = [asked EXCEPT ![i] = Append(@, b.prompt[1])]
                      /\ posts' = [posts EXCEPT ![i] =
                              IF wiring.real THEN Append(@, ChatPost(boot)) ELSE @]
                      /\ stages' = [stages EXCEPT ![i] = @ \o <<"VALIDATE", "COMPLETE">>]
                      /\ pc' = [pc EXCEPT ![i] = "await_chat_api"]
                      /\ UNCHANGED response
    /\ UNCHANGED <<env, boot, running, wiring, served, request, gates, provider,
                   completion, sent, platform, delivery>>

\* POST /telegram/webhook reaches its route: the extractors read the body b,
\* and telegram_webhook runs up to its await on call_chat_api.
telegram_webhook(i) ==
    /\ pc[i] = "route"
    /\ request[i].route = "telegram"
    /\ \E b \in TelegramBodies :
        /\ body' = [body EXCEPT ![i] = Some(b)]
        /\ \/ /\ TelegramExtractErrors(wiring, b) # {}
              /\ \E r \in TelegramExtractErrors(wiring, b) : Respond(i, r)
              /\ stages' = [stages EXCEPT ![i] = Append(@, "VALIDATE")]
              /\ UNCHANGED <<handled, asked, posts>>
           \/ /\ TelegramExtractErrors(wiring, b) = {}
              /\ handled' = [handled EXCEPT ![i] = TRUE]
              /\ IF ChatIdAndPrompt(b) = None
                 THEN /\ Respond(i, NoMessageTextResponse)
                      /\ stages' = [stages EXCEPT ![i] = Append(@, "VALIDATE")]
                      /\ UNCHANGED <<asked, posts>>
                 ELSE /\ asked' = [asked EXCEPT ![i] = Append(@, ChatIdAndPrompt(b)[1].prompt)]
                      /\ posts' = [posts EXCEPT ![i] =
                              IF wiring.real THEN Append(@, ChatPost(boot)) ELSE @]
                      /\ stages' = [stages EXCEPT ![i] = @ \o <<"VALIDATE", "COMPLETE">>]
                      /\ pc' = [pc EXCEPT ![i] = "await_chat_api"]
                      /\ UNCHANGED response
    /\ UNCHANGED <<env, boot, running, wiring, served, request, gates, provider,
                   completion, sent, platform, delivery>>

\* Faulty variant of ChatApiReturns: a failed completion is not taken as
\* final, the handler goes on awaiting until one succeeds.
ChatApiReturns_await_until_ok(i) ==
    /\ pc[i] = "await_chat_api"
    /\ \E a \in ProviderAnswers :
        LET result == call_chat_api(a) IN
        /\ provider' = [provider EXCEPT ![i] = Some(a)]
        /\ completion' = [completion EXCEPT ![i] = Some(result)]
        /\ CASE AfterChatApi(request[i].route, result) = "error" ->
                /\ UNCHANGED <<pc, response, sent, posts, stages>>
             [] AfterChatApi(request[i].route, result) = "reply" ->
                /\ Respond(i, ChatOkResponse(result.text))
                /\ UNCHANGED <<sent, posts, stages>>
             [] AfterChatApi(request[i].route, result) = "deliver" ->
                /\ sent' = [sent EXCEPT ![i] =
                        Append(@, [chat_id |-> ChatIdAndPrompt(body[i][1])[1].chat_id,
                                   text |-> result.text])]
                /\ posts' = [posts EXCEPT ![i] =
                        IF wiring.real THEN Append(@, TelegramPost(boot)) ELSE @]
                /\ stages' = [stages EXCEPT ![i] = Append(@, "DELIVER")]
                /\ pc' = [pc EXCEPT ![i] = "await_telegram_api"]
                /\ UNCHANGED response
    /\ UNCHANGED <<env, boot, running, wiring, served, request, gates, body, handled,
                   asked, platform, delivery>>

\* Faulty variant of ChatApiReturns: the chat to deliver to is kept in one
\* place for all requests, so a delivery goes to the chat of whichever
\* update was read last.
ChatApiReturns_shared_chat(i) ==
    /\ pc[i] = "await_chat_api"
    /\ \E a \in ProviderAnswers :
        LET result == call_chat_api(a)
            others == {j \in Reqs \ {i} :
                          /\ request[j].route = "telegram"
                          /\ body[j] # None
                          /\ handled[j]
                          /\ ChatIdAndPrompt(body[j][1]) # None}
            from == IF others = {} THEN i ELSE CHOOSE j \in others : TRUE
        IN
        /\ provider' = [provider EXCEPT ![i] = Some(a)]
        /\ completion' = [completion EXCEPT ![i] = Some(result)]
        /\ CASE AfterChatApi(request[i].route, result) = "error" ->
                /\ Respond(i, ChatApiErrorResponse)
                /\ UNCHANGED <<sent, posts, stages>>
             [] AfterChatApi(request[i].route, result) = "reply" ->
                /\ Respond(i, ChatOkResponse(result.text))
                /\ UNCHANGED <<sent, posts, stages>>
             [] AfterChatApi(request[i].route, result) = "deliver" ->
                /\ sent' = [sent EXCEPT ![i] =
                        Append(@, [chat_id |-> ChatIdAndPrompt(body[from][1])[1].chat_id,
                                   text |-> result.text])]
                /\ posts' = [posts EXCEPT ![i] =
                        IF wiring.real THEN Append(@, TelegramPost(boot)) ELSE @]
                /\ stages' = [stages EXCEPT ![i] = Append(@, "DELIVER")]
                /\ pc' = [pc EXCEPT ![i] = "await_telegram_api"]
                /\ UNCHANGED response
    /\ UNCHANGED <<env, boot, running, wiring, served, request, gates, body, handled,
                   asked, platform, delivery>>

\* The completion provider answers (or the transport fails): call_chat_api
\* returns and the awaiting handler goes on, chat_endpoint to its response,
\* telegram_webhook to its response or to its await on send_telegram_message.
ChatApiReturns(i) ==
    /\ pc[i] = "await_chat_api"
    /\ \E a \in ProviderAnswers :
        LET result == call_chat_api(a) IN
        /\ provider' = [provider EXCEPT ![i] = Some(a)]
        /\ completion' = [completion EXCEPT ![i] = Some(result)]
        /\ CASE AfterChatApi(request[i].route, result) = "error" ->
                /\ Respond(i, ChatApiErrorResponse)
                /\ UNCHANGED <<sent, posts, stages>>
             [] AfterChatApi(request[i].route, result) = "reply" ->
                /\ Respond(i, ChatOkResponse(result.text))
                /\ UNCHANGED <<sent, posts, stages>>
             [] AfterChatApi(request[i].route, result) = "deliver" ->
                /\ sent' = [sent EXCEPT ![i] =
                        Append(@, [chat_id |-> ChatIdAndPrompt(body[i][1])[1].chat_id,
                                   text |-> result.text])]
                /\ posts' = [posts EXCEPT ![i] =
                        IF wiring.real THEN Append(@, TelegramPost(boot)) ELSE @]
                /\ stages' = [stages EXCEPT ![i] = Append(@, "DELIVER")]
                /\ pc' = [pc EXCEPT ![i] = "await_telegram_api"]
                /\ UNCHANGED response
    /\ UNCHANGED <<env, boot, running, wiring, served, request, gates, body, handled,
                   asked, platform, delivery>>

\* Faulty variant of TelegramApiReturns: a delivery that failed is attempted
\* once more before the handler answers.
TelegramApiReturns_resend(i) ==
    /\ pc[i] = "await_telegram_api"
    /\ \E a \in PlatformAnswers :
        LET result == send_telegram_message(a) IN
        /\ platform' = [platform EXCEPT ![i] = Some(a)]
        /\ delivery' = [delivery EXCEPT ![i] = Some(result)]
        /\ IF ~result.ok /\ Len(sent[i]) < 2
           THEN /\ sent' = [sent EXCEPT ![i] = Append(@, @[1])]
                /\ UNCHANGED <<pc, response>>
           ELSE /\ Respond(i, TelegramSentResponse(result))
                /\ UNCHANGED sent
    /\ UNCHANGED <<env, boot, running, wiring, served, request, gates, body, handled,
                   asked, provider, completion, posts, stages>>

\* The platform answers (or the transport fails): send_telegram_message
\* returns and telegram_webhook makes its response.
TelegramApiReturns(i) ==
    /\ pc[i] = "await_telegram_api"
    /\ \E a \in PlatformAnswers :
        LET result == send_telegram_message(a) IN
        /\ platform' = [platform EXCEPT ![i] = Some(a)]
        /\ delivery' = [delivery EXCEPT ![i] = Some(result)]
        /\ Respond(i, TelegramSentResponse(result))
    /\ UNCHANGED <<env, boot, running, wiring, served, request, gates, body, handled,
                   asked, provider, completion, sent, posts, stages>>

\* The response is written out and everything the request owned is dropped.
Close(i) ==
    /\ pc[i] = "responded"
    /\ pc' = [pc EXCEPT ![i] = "idle"]
    /\ request' = [request EXCEPT ![i] = NoRequest]
    /\ gates' = [gates EXCEPT ![i] = 0]
    /\ body' = [body EXCEPT ![i] = None]
    /\ handled' = [handled EXCEPT ![i] = FALSE]
    /\ asked' = [asked EXCEPT ![i] = <<>>]
    /\ provider' = [provider EXCEPT ![i] = None]
    /\ completion' = [completion EXCEPT ![i] = None]
    /\ sent' = [sent EXCEPT ![i] = <<>>]
    /\ platform' = [platform EXCEPT ![i] = None]
    /\ delivery' = [delivery EXCEPT ![i] = None]
    /\ response' = [response EXCEPT ![i] = None]
    /\ posts' = [posts EXCEPT ![i] = <<>>]
    /\ stages' = [stages EXCEPT ![i] = <<>>]
    /\ UNCHANGED <<env, boot, running, wiring, served>>

Next ==
    \E i \in Reqs :
        \/ Receive(i)
        \/ Validator(i)
        \/ chat_endpoint(i)
        \/ telegram_webhook(i)
        \/ ChatApiReturns(i)
        \/ TelegramApiReturns(i)
        \/ Close(i)

Spec == Init /\ [][Next]_vars

\* ------------------------------------------------------------ properties

\* A text is blank when it is empty or made of whitespace only.
Blank(t) == \A k \in 1..Len(t) : t[k] = " "

\* The request's task has moved past the reading of its body.
BodyRead(i) == body[i] # None

\* C1: on the direct-ask route, a prompt whose trimmed form is non-empty and
\* a completion call that succeeds with text r give the response 200 with
\* body exactly r.
C1_ChatOkReturnsCompletion ==
    \A i \in Reqs :
        ( /\ request[i].route = "chat"
          /\ BodyRead(i)
          /\ body[i][1].prompt # None
          /\ ~Blank(body[i][1].prompt[1])
          /\ completion[i] # None
          /\ completion[i][1].ok )
        => /\ pc[i] = "responded"
           /\ response[i] = Some(Response(200, completion[i][1].text))

\* C1 happens: a padded prompt was answered with the provider's padded text.
C1_Witness ==
    \E i \in Reqs :
        /\ request[i].route = "chat"
        /\ BodyRead(i)
        /\ body[i][1].prompt = Some(<<" ", "a">>)
        /\ completion[i] = Some(Ok(" Echo: Hello bot "))
        /\ response[i] = Some(Response(200, " Echo: Hello bot "))

ValidatorRan(i) == pc[i] = "auth" /\ (pc'[i] # "auth" \/ gates'[i] # gates[i])

\* C3: a run of the validator lets the request pass if and only if it
\* carries a bearer token equal, character for character, to the configured
\* token; a request that passes goes on unchanged and unanswered.
C3_GatePassesIffTokenEqual ==
    [][\A i \in Reqs :
        ValidatorRan(i) =>
            /\ (gates'[i] = gates[i] - 1)
                 <=> (request[i].credentials # None /\ request[i].credentials = env.API_TOKEN)
            /\ gates'[i] = gates[i] - 1 =>
                 /\ request'[i] = request[i]
                 /\ response'[i] = None
                 /\ pc'[i] \in {"auth", "route"}
            /\ gates'[i] # gates[i] - 1 => pc'[i] = "responded"]_vars

\* C3 happens: side by side, the right token passed every gate and reached
\* its route, and a token differing in case only was rejected.
C3_Witness ==
    \E i, j \in Reqs :
        /\ wiring.auth
        /\ env.API_TOKEN = Some(<<"t", "k">>)
        /\ request[i].credentials = Some(<<"t", "k">>)
        /\ request[i].route = "chat"
        /\ pc[i] = "await_chat_api"
        /\ request[j].credentials = Some(<<"T", "k">>)
        /\ pc[j] = "responded"
        /\ response[j] = Some(Response(400, "Authentication Error"))

\* The request carries no bearer token, or one that differs from the
\* configured token.
BadToken(i) == request[i].credentials = None \/ request[i].credentials # env.API_TOKEN

\* C4: behind the validator, a request with a missing or mismatched token
\* never gets its body read, its handler entered, or an outbound call made,
\* and it is answered with status 400 in the missing and in the mismatched
\* case alike.
C4_BadTokenStopsAtGate ==
    \A i \in Reqs :
        (wiring.auth /\ pc[i] # "idle" /\ BadToken(i))
        => /\ pc[i] \in {"auth", "responded"}
           /\ body[i] = None
           /\ ~handled[i]
           /\ asked[i] = <<>>
           /\ sent[i] = <<>>
           /\ provider[i] = None
           /\ platform[i] = None
           /\ pc[i] = "responded" => response[i][1].status = 400

\* C4 happens: one request without a token and one with a wrong token were
\* both rejected on the webhook route.
C4_Witness ==
    \E i, j \in Reqs :
        /\ wiring.auth
        /\ request[i].route = "telegram"
        /\ request[i].credentials = None
        /\ response[i] = Some(Response(400, "No Bearer Header"))
        /\ request[j].route = "telegram"
        /\ request[j].credentials = Some(<<"T", "k">>)
        /\ env.API_TOKEN = Some(<<"t", "k">>)
        /\ response[j] = Some(Response(400, "Authentication Error"))

\* The update of request i has no message, or a message without text, or a
\* message whose text is blank.
LacksText(b) ==
    \/ b.message = None
    \/ b.message[1].text = None
    \/ Blank(b.message[1].text[1])

\* C5: on the webhook route (both clients wired), an update without message,
\* without text, or with a blank text is answered 400 "No Message Text" and
\* causes no outbound call; a body whose message is an empty object is such
\* an update.
C5_NoTextAnswersNoMessageText ==
    \A i \in Reqs :
        ( /\ request[i].route = "telegram"
          /\ wiring.telegram_api
          /\ BodyRead(i)
          /\ LacksText(body[i][1]) )
        => /\ asked[i] = <<>>
           /\ sent[i] = <<>>
           /\ response[i] = Some(Response(400, "No Message Text"))

\* C6: on either route, a completion call that fails, whatever the cause, is
\* answered with status 500, and send_telegram_message is never called for
\* that request.
C6_CompletionFailureIs500NoDelivery ==
    \A i \in Reqs :
        (completion[i] # None /\ ~completion[i][1].ok)
        => /\ pc[i] = "responded"
           /\ response[i][1].status = 500
           /\ sent[i] = <<>>
           /\ platform[i] = None
           /\ delivery[i] = None

\* C6 happens: on the webhook route the provider answered 200 without the
\* content field, and the request ended 500 with nothing delivered.
C6_Witness ==
    \E i \in Reqs :
        /\ request[i].route = "telegram"
        /\ provider[i] # None
        /\ provider[i][1].json = "no_content"
        /\ provider[i][1].status = 200
        /\ response[i] = Some(Response(500, "Error calling chat API"))
        /\ sent[i] = <<>>

\* C7: on the webhook route, a delivery that fails after a completion that
\* succeeded is answered 500 with a body other than that of a completion
\* failure; the generated text is not in the response and was passed to
\* send_telegram_message once only.
C7_DeliveryFailureIsDistinct500 ==
    \A i \in Reqs :
        (delivery[i] # None /\ ~delivery[i][1].ok)
        => /\ completion[i] # None
           /\ completion[i][1].ok
           /\ pc[i] = "responded"
           /\ response[i][1].status = 500
           /\ response[i][1].body = "Failed to send message to Telegram"
           /\ response[i][1].body # ChatApiErrorResponse.body
           /\ response[i][1].body # completion[i][1].text
           /\ Len(sent[i]) = 1
           /\ Len(asked[i]) = 1

\* C7 happens: the provider generated a text, the platform answered 400, and
\* the request ended with the delivery error.
C7_Witness ==
    \E i \in Reqs :
        /\ completion[i] = Some(Ok("Hi back!"))
        /\ platform[i] # None
        /\ platform[i][1].status = 400
        /\ Len(sent[i]) = 1
        /\ response[i] = Some(Response(500, "Failed to send message to Telegram"))

\* C8: on the webhook route with the Delivery Client wired, for an update
\* with chat id c and non-blank text t, a completion returning r and a
\* delivery that succeeds, send_telegram_message was called exactly once,
\* with (c, r), and the response is 200 "Message sent"; and a call of
\* send_telegram_message is always preceded by the completion whose text it
\* carries.
C8_DeliveredOnceThenAcknowledged ==
    \A i \in Reqs :
        /\ ( /\ request[i].route = "telegram"
             /\ wiring.telegram_api
             /\ handled[i]
             /\ ~LacksText(body[i][1])
             /\ completion[i] # None
             /\ completion[i][1].ok
             /\ delivery[i] # None
             /\ delivery[i][1].ok )
           => /\ asked[i] = <<body[i][1].message[1].text[1]>>
              /\ sent[i] = <<[chat_id |-> body[i][1].message[1].chat[1].id,
                              text |-> completion[i][1].text]>>
              /\ pc[i] = "responded"
              /\ response[i] = Some(Response(200, "Message sent"))
        /\ sent[i] # <<>>
           => /\ Len(sent[i]) = 1
              /\ completion[i] # None
              /\ completion[i][1].ok
              /\ sent[i][1].text = completion[i][1].text

\* C8 happens: the update of chat 9 with a padded text was completed with a
\* padded text, which was delivered to chat 9 as it was and acknowledged.
C8_Witness ==
    \E i \in Reqs :
        /\ request[i].route = "telegram"
        /\ BodyRead(i)
        /\ asked[i] = <<(<<"a", " ">>)>>
        /\ sent[i] = <<[chat_id |-> 9, text |-> " Echo: Hello bot "]>>
        /\ delivery[i] # None
        /\ delivery[i][1].ok
        /\ response[i] = Some(Response(200, "Message sent"))

\* C9: with no Delivery Client wired, an update that parses and has a
\* non-blank text is passed to the completion provider, nothing is
\* dispatched, and a completion returning r is answered 200 with body r.
C9_InlineReplyWithoutDeliveryClient ==
    \A i \in Reqs :
        ( /\ request[i].route = "telegram"
          /\ ~wiring.telegram_api
          /\ pc[i] = "responded"
          /\ BodyRead(i)
          /\ TelegramUpdateParses(body[i][1])
          /\ ~LacksText(body[i][1]) )
        => /\ asked[i] = <<body[i][1].message[1].text[1]>>
           /\ sent[i] = <<>>
           /\ (completion[i] # None /\ completion[i][1].ok)
                => response[i] = Some(Response(200, completion[i][1].text))

\* C10: a webhook body with a chat id and a non-blank text but no update_id
\* is accepted as an update and reaches the completion call; it is not
\* rejected as a malformed body.
C10_UpdateIdOptional ==
    \A i \in Reqs :
        ( /\ request[i].route = "telegram"
          /\ wiring.telegram_api
          /\ BodyRead(i)
          /\ body[i][1].update_id = None
          /\ body[i][1].message # None
          /\ body[i][1].message[1].chat # None
          /\ ~LacksText(body[i][1]) )
        => /\ handled[i]
           /\ Len(asked[i]) = 1
           /\ response[i] # Some(JsonError)

\* The HTTP requests that request i's real clients sent to one peer.
PostsTo(i, peer) == SelectSeq(posts[i], LAMBDA p : p.to = peer)

\* C11: whatever the outbound calls return, a request makes at most one
\* completion call and at most one delivery call; a failed call is not
\* retried, and a failed delivery is followed by no further completion or
\* delivery attempt.
C11_AtMostOneCallEach ==
    \A i \in Reqs :
        /\ Len(asked[i]) <= 1
        /\ Len(sent[i]) <= 1
        /\ Len(PostsTo(i, "provider")) <= 1
        /\ Len(PostsTo(i, "platform")) <= 1
        /\ wiring.real => Len(posts[i]) = Len(asked[i]) + Len(sent[i])
        /\ (completion[i] # None /\ ~completion[i][1].ok) =>
               /\ Len(asked[i]) = 1
               /\ sent[i] = <<>>
               /\ pc[i] = "responded"
        /\ (delivery[i] # None /\ ~delivery[i][1].ok) =>
               /\ Len(asked[i]) = 1
               /\ Len(sent[i]) = 1
               /\ pc[i] = "responded"

\* C11 happens: a request of the real clients whose completion succeeded and
\* whose delivery failed was answered after one call of each kind.
C11_Witness ==
    \E i \in Reqs :
        /\ wiring.real
        /\ completion[i] # None /\ completion[i][1].ok
        /\ delivery[i] # None /\ ~delivery[i][1].ok
        /\ Len(posts[i]) = 2
        /\ Len(asked[i]) = 1 /\ Len(sent[i]) = 1
        /\ pc[i] = "responded"

\* Requests i and j are the same request with the same body.
SameInput(i, j) ==
    /\ request[i] = request[j]
    /\ BodyRead(i) /\ BodyRead(j)
    /\ body[i] = body[j]

\* The completion call of request i failed.
CompletionFailed(i) == completion[i] # None /\ ~completion[i][1].ok

\* The delivery call of request i failed.
DeliveryFailed(i) == delivery[i] # None /\ ~delivery[i][1].ok

\* C12: the answer to a failed outbound call is a fixed message: two
\* requests that differ only in what the provider's, or the platform's,
\* failure was (status, error body, transport cause) get the same status and
\* body.
C12_FailureAnswerIndependentOfError ==
    \A i, j \in Reqs :
        /\ (SameInput(i, j) /\ CompletionFailed(i) /\ CompletionFailed(j)) =>
               /\ response[i] # None
               /\ response[i] = response[j]
               /\ response[i] = Some(ChatApiErrorResponse)
        /\ (SameInput(i, j) /\ completion[i] = completion[j]
              /\ DeliveryFailed(i) /\ DeliveryFailed(j)) =>
               /\ response[i] # None
               /\ response[i] = response[j]
               /\ response[i][1].status = 500
               /\ response[i][1].body \notin {delivery[i][1].body, delivery[j][1].body}

\* C12 happens with the provider: a transport failure and a 500 without
\* content, on the same request, were answered alike.
C12_Witness ==
    \E i, j \in Reqs :
        /\ i # j
        /\ SameInput(i, j)
        /\ CompletionFailed(i) /\ CompletionFailed(j)
        /\ ~provider[i][1].arrived
        /\ provider[j][1].arrived /\ provider[j][1].status = 500
        /\ completion[i] # completion[j]
        /\ response[i] = response[j]
        /\ response[i] # None

\* C12 happens with the platform: a transport failure and a 400 with an
\* error body, after the same completion, were answered alike.
C12_WitnessDelivery ==
    \E i, j \in Reqs :
        /\ i # j
        /\ SameInput(i, j)
        /\ completion[i] = completion[j]
        /\ DeliveryFailed(i) /\ DeliveryFailed(j)
        /\ delivery[i][1].kind = "HTTP error"
        /\ delivery[j][1].status = 400 /\ delivery[j][1].body = "chat not found"
        /\ response[i] = response[j]
        /\ response[i] # None

\* ------------------------------------------------------------ scheduling

\* The runtime polls every task that can make progress, and every outbound
\* call returns, with a result or an error.
Fairness ==
    \A i \in Reqs :
        /\ WF_vars(Validator(i))
        /\ WF_vars(chat_endpoint(i))
        /\ WF_vars(telegram_webhook(i))
        /\ WF_vars(ChatApiReturns(i))
        /\ WF_vars(TelegramApiReturns(i))

\* The program under that scheduling.
SpecFair == Init /\ [][Next]_vars /\ Fairness

\* ------------------------------------------------------------ a changing environment

\* The environment after a change of every credential: another gate token,
\* another provider base URL and key, another platform base URL and bot
\* token.
ChangedEnv ==
    [FullEnv EXCEPT !.API_TOKEN = Some(<<"T", "k">>),
                    !.OPEN_AI_URL = Some(<<"v">>),
                    !.OPEN_AI_API_KEY = Some(<<"K">>),
                    !.TELEGRAM_API_BASE_URL = Some(<<"G">>),
                    !.TELEGRAM_BOT_TOKEN = Some(<<"B">>)]

\* Something in the running process changes the environment it was started
\* with (std::env::set_var), or restores it.
SetEnv ==
    /\ running
    /\ env' = (IF env = boot THEN ChangedEnv ELSE boot)
    /\ UNCHANGED <<boot, running, wiring, served, pc, request, gates, body, handled,
                   asked, provider, completion, sent, platform, delivery, response,
                   posts, stages>>

NextEnv == Next \/ SetEnv

\* main's process, started with the complete environment.
InitEnv == Init /\ wiring = Production /\ env = FullEnv

\* The program in a process whose environment may change while it runs.
SpecEnv == InitEnv /\ [][NextEnv]_vars

\* Request i went through the gate and was let through to its handler.
PassedGate(i) ==
    /\ wiring.auth
    /\ \/ pc[i] = "route"
       \/ Len(stages[i]) >= 2 /\ stages[i][2] = "VALIDATE"

\* Request i was answered by the gate.
StoppedAtGate(i) == wiring.auth /\ pc[i] = "responded" /\ stages[i] = <<"AUTH">>

\* C13: credentials are resolved once at startup: after any change of the
\* environment the gate still decides by the token the process started
\* with, and the clients still post to the targets they were built with.
C13_StartupCredentialsDecide ==
    \A i \in Reqs :
        /\ PassedGate(i) => validator(request[i].credentials, boot.API_TOKEN).ok
        /\ StoppedAtGate(i) => ~validator(request[i].credentials, boot.API_TOKEN).ok
        /\ \A k \in 1..Len(posts[i]) : posts[i][k] \in {ChatPost(boot), TelegramPost(boot)}

\* The part of C13 that the code keeps: the clients hold what new_from_env
\* read at startup.
C13_ClientsKeepStartupTargets ==
    \A i \in Reqs :
        \A k \in 1..Len(posts[i]) : posts[i][k] \in {ChatPost(boot), TelegramPost(boot)}

\* The clients' part happens: a request posted to both startup targets after
\* the environment was changed.
C13_ClientsWitness ==
    \E i \in Reqs :
        /\ env = ChangedEnv
        /\ posts[i] = <<ChatPost(boot), TelegramPost(boot)>>
        /\ ChatPost(boot) # ChatPost(env)
        /\ TelegramPost(boot) # TelegramPost(env)

\* ------------------------------------------------------------ properties, continued

\* main's process was started with required variable n not set.
StartedWithout(n) == wiring.real /\ boot[n] = None

\* The process serves nothing: no request was accepted or answered.
ServesNothing ==
    /\ ~running
    /\ served = 0
    /\ \A i \in Reqs : pc[i] = "idle" /\ response[i] = None

\* C14: a process started with any required configuration value missing
\* stops at startup: it serves no request and produces no per-request error.
C14_MissingRequiredStopsStartup ==
    \A n \in RequiredNames : StartedWithout(n) => ServesNothing

\* The part of C14 that the code keeps: every required value but the
\* expected bearer token stops startup when it is missing.
C14_MissingClientOrBindValueStopsStartup ==
    \A n \in RequiredNames \ {"API_TOKEN"} : StartedWithout(n) => ServesNothing

\* What the code does instead for the bearer token: the process runs and
\* answers a request that bears a token with a per-request 400.
C14_MissingTokenWitness ==
    \E i \in Reqs :
        /\ StartedWithout("API_TOKEN")
        /\ running
        /\ request[i].credentials # None
        /\ response[i] = Some(Response(400, "Authentication Error"))

\* send_telegram_message of request i returned, after exactly one request
\* to the platform.
DeliveryReturnedAfterOnePost(i) ==
    /\ delivery[i] # None
    /\ platform[i] # None
    /\ Len(sent[i]) = 1
    /\ wiring.real => Len(PostsTo(i, "platform")) = 1

\* C15, as stated: the Delivery Client returns Ok exactly when the platform
\* answers 2xx; for any other status its error carries the status and the
\* response body; for a transport failure it returns an error; in every
\* case one request is sent.
C15_DeliveryOkIff2xx_AsStated ==
    \A i \in Reqs :
        delivery[i] # None =>
            LET a == platform[i][1]
                d == delivery[i][1]
            IN  /\ DeliveryReturnedAfterOnePost(i)
                /\ d.ok <=> (a.arrived /\ a.status \in 200..299)
                /\ ~a.arrived => (~d.ok /\ d.kind = "HTTP error")
                /\ (a.arrived /\ a.status \notin 200..299) =>
                       /\ d.kind = "Telegram API error"
                       /\ d.status = a.status
                       /\ d.body = a.body

\* C15, amended: as stated, except that the error for a non-2xx status
\* carries the response body only if the body could be read, and an empty
\* body otherwise.
C15_DeliveryOkIff2xx ==
    \A i \in Reqs :
        delivery[i] # None =>
            LET a == platform[i][1]
                d == delivery[i][1]
            IN  /\ DeliveryReturnedAfterOnePost(i)
                /\ d.ok <=> (a.arrived /\ a.status \in 200..299)
                /\ ~a.arrived => (~d.ok /\ d.kind = "HTTP error")
                /\ (a.arrived /\ a.status \notin 200..299) =>
                       /\ d.kind = "Telegram API error"
                       /\ d.status = a.status
                       /\ d.body = (IF a.readable THEN a.body ELSE "")

\* C15 happens: side by side, a 299 returned Ok and a 400 whose body could
\* not be read returned an error with the status and an empty body.
C15_Witness ==
    \E i, j \in Reqs :
        /\ DeliveryReturnedAfterOnePost(i) /\ DeliveryReturnedAfterOnePost(j)
        /\ platform[i][1].status = 299 /\ delivery[i][1].ok
        /\ platform[j][1].status = 400 /\ ~platform[j][1].readable
        /\ delivery[j][1].status = 400 /\ delivery[j][1].body = ""

\* C16: the Completion Client succeeds only when the provider's JSON has a
\* string at choices[0].message.content, and then returns that string
\* unmodified; a missing or non-string content is a failure, never a success
\* with another text.
C16_SuccessOnlyWithStringContent ==
    \A i \in Reqs :
        completion[i] # None =>
            LET a == provider[i][1]
                c == completion[i][1]
            IN  /\ c.ok <=> (a.arrived /\ a.json = "string")
                /\ c.ok => c.text = a.content
                /\ (a.arrived /\ a.json \in {"no_content", "non_string"}) =>
                       /\ ~c.ok
                       /\ c.text = ""
                       /\ c.err = "Missing content in the response!"

\* C16 happens: side by side, a non-string content failed and a padded
\* string content was returned with its padding.
C16_Witness ==
    \E i, j \in Reqs :
        /\ completion[i] # None /\ completion[j] # None
        /\ provider[i][1].json = "non_string"
        /\ completion[i][1] = Err("Missing content in the response!")
        /\ provider[j][1].json = "string"
        /\ provider[j][1].content = " Echo: Hello bot "
        /\ completion[j][1] = Ok(" Echo: Hello bot ")

\* The provider answered request i with a non-2xx status.
ProviderNon2xx(i) ==
    /\ provider[i] # None
    /\ provider[i][1].arrived
    /\ provider[i][1].status \notin 200..299

\* C20: the result of call_chat_api depends on the body of the provider's
\* response and not on its status: a non-2xx answer with a string content is
\* a successful completion, answered with 200 or delivered, and a non-2xx
\* answer without it fails as missing content.
C20_StatusIgnored ==
    /\ \A i \in Reqs :
        ProviderNon2xx(i) =>
            LET a == provider[i][1]
                c == completion[i][1]
            IN  /\ a.json = "string" =>
                    /\ c = Ok(a.content)
                    /\ request[i].route = "chat" =>
                           response[i] = Some(Response(200, a.content))
                    /\ request[i].route = "telegram" =>
                           /\ Len(sent[i]) = 1
                           /\ sent[i][1].text = a.content
                /\ a.json \in {"no_content", "non_string"} =>
                    /\ c = Err("Missing content in the response!")
                    /\ response[i] = Some(ChatApiErrorResponse)
    /\ \A i, j \in Reqs :
        ( /\ provider[i] # None /\ provider[j] # None
          /\ provider[i][1].arrived /\ provider[j][1].arrived
          /\ provider[i][1].json = provider[j][1].json
          /\ provider[i][1].content = provider[j][1].content )
        => completion[i] = completion[j]

\* C20 happens: side by side, a 500 with a string content was answered 200
\* with that content, and a 500 without content failed as missing content.
C20_Witness ==
    \E i, j \in Reqs :
        /\ ProviderNon2xx(i) /\ ProviderNon2xx(j)
        /\ request[i].route = "chat"
        /\ provider[i][1].json = "string"
        /\ response[i] = Some(Response(200, provider[i][1].content))
        /\ provider[j][1].json = "no_content"
        /\ completion[j] = Some(Err("Missing content in the response!"))

\* The stages of a request on a route, in their order: the gate where the
\* App has one, the handler's extraction and validation, the completion
\* call, and on the platform route the delivery.
StageOrder(w, route) ==
    (IF w.auth THEN <<"AUTH">> ELSE <<>>)
    \o <<"VALIDATE", "COMPLETE">>
    \o (IF route = "telegram" THEN <<"DELIVER">> ELSE <<>>)

IsPrefix(s, t) == Len(s) <= Len(t) /\ SubSeq(t, 1, Len(s)) = s

Entered(i, stage) == \E k \in 1..Len(stages[i]) : stages[i][k] = stage

\* The body of request i passed its route's extraction and validation.
ValidInput(i) ==
    /\ BodyRead(i)
    /\ handled[i]
    /\ IF request[i].route = "chat"
       THEN ChatRequestParses(body[i][1]) /\ ~PromptIsBlank(body[i][1])
       ELSE TelegramUpdateParses(body[i][1]) /\ ChatIdAndPrompt(body[i][1]) # None

\* C17: a request goes through AUTH, VALIDATE, COMPLETE and (platform route)
\* DELIVER in that order: a stage is entered only after every earlier one
\* succeeded, none is entered twice, and none is entered after a failure.
C17_StagesInOrder ==
    \A i \in Reqs :
        /\ pc[i] # "idle" => IsPrefix(stages[i], StageOrder(wiring, request[i].route))
        /\ pc[i] = "idle" => stages[i] = <<>>
        /\ Entered(i, "VALIDATE") =>
               /\ gates[i] = 0
               /\ wiring.auth => validator(request[i].credentials, env.API_TOKEN).ok
        /\ Entered(i, "COMPLETE") <=> Len(asked[i]) = 1
        /\ Entered(i, "COMPLETE") => ValidInput(i)
        /\ Entered(i, "DELIVER") <=> Len(sent[i]) = 1
        /\ Entered(i, "DELIVER") => (completion[i] # None /\ completion[i][1].ok)
        /\ StoppedAtGate(i) => (stages[i] = <<"AUTH">> /\ ~BodyRead(i) /\ asked[i] = <<>>)
        /\ (BodyRead(i) /\ ~ValidInput(i)) =>
               /\ pc[i] = "responded"
               /\ ~Entered(i, "COMPLETE")
               /\ ~Entered(i, "DELIVER")
        /\ CompletionFailed(i) => (pc[i] = "responded" /\ ~Entered(i, "DELIVER"))

\* C17 happens: a platform request went through all four stages.
C17_Witness ==
    \E i \in Reqs :
        /\ request[i].route = "telegram"
        /\ stages[i] = <<"AUTH", "VALIDATE", "COMPLETE", "DELIVER">>
        /\ pc[i] = "responded"

\* C17 happens on failures: side by side, a request stopped in VALIDATE and
\* one stopped in COMPLETE.
C17_WitnessFailures ==
    \E i, j \in Reqs :
        /\ stages[i] = <<"AUTH", "VALIDATE">> /\ pc[i] = "responded"
        /\ stages[j] = <<"AUTH", "VALIDATE", "COMPLETE">> /\ CompletionFailed(j)
        /\ request[j].route = "telegram"

\* Request i was accepted and has no response yet.
InFlight(i) == pc[i] \in {"auth", "route", "await_chat_api", "await_telegram_api"}

\* The terminal outcomes, by their HTTP status: DONE, REJECT, SERVER_ERR.
TerminalStatuses == {200, 400, 500}

\* C18: if every outbound call returns, every accepted request reaches one
\* terminal outcome and gets exactly one response with one status: it never
\* stays in a non-terminal stage forever, and a response once made is never
\* replaced by another.
C18_EveryRequestAnsweredOnce ==
    /\ \A i \in Reqs : InFlight(i) ~> pc[i] = "responded"
    /\ [](\A i \in Reqs :
            /\ pc[i] = "responded" <=> response[i] # None
            /\ response[i] # None => response[i][1].status \in TerminalStatuses)
    /\ [][\A i \in Reqs :
            response[i] # None =>
                \/ response'[i] = response[i] /\ pc'[i] = "responded"
                \/ response'[i] = None /\ pc'[i] = "idle"]_vars

\* C18 happens: a request that had to wait for both outbound calls was
\* answered.
C18_Witness ==
    \E i \in Reqs :
        /\ platform[i] # None
        /\ delivery[i] # None
        /\ pc[i] = "responded"
        /\ response[i] # None
        /\ response[i][1].status \in TerminalStatuses

\* Everything request i owns.
Slot(i) ==
    <<pc[i], request[i], gates[i], body[i], handled[i], asked[i], provider[i],
      completion[i], sent[i], platform[i], delivery[i], response[i], posts[i],
      stages[i]>>

\* The prompt request i's handler took from its own body.
OwnPrompt(i) ==
    IF request[i].route = "chat" THEN body[i][1].prompt[1]
    ELSE ChatIdAndPrompt(body[i][1])[1].prompt

\* The arguments of request i's outbound calls come from its own body and
\* its own completion.
OwnArguments(i) ==
    /\ \A k \in 1..Len(asked[i]) : asked[i][k] = OwnPrompt(i)
    /\ \A k \in 1..Len(sent[i]) :
        /\ sent[i][k].chat_id = ChatIdAndPrompt(body[i][1])[1].chat_id
        /\ completion[i] # None
        /\ sent[i][k].text = completion[i][1].text

\* Requests i and j got the same results from their outbound calls.
SameResults(i, j) == provider[i] = provider[j] /\ platform[i] = platform[j]

\* C19: whatever the interleaving, a request's response and the arguments of
\* its outbound calls depend on its own input and its own calls' results
\* only: a step of one request leaves every other request untouched, requests
\* with equal inputs and results have equal responses and calls, and a
\* delivery carries the chat id and completion text of its own request.
C19_RequestsIndependent ==
    /\ [](\A i \in Reqs : OwnArguments(i))
    /\ [](\A i, j \in Reqs :
            (SameInput(i, j) /\ SameResults(i, j) /\ handled[i] /\ handled[j]
               /\ pc[i] = "responded" /\ pc[j] = "responded")
            => /\ response[i] = response[j]
               /\ asked[i] = asked[j]
               /\ sent[i] = sent[j]
               /\ posts[i] = posts[j])
    /\ [][\E i \in Reqs : \A j \in Reqs \ {i} : Slot(j)' = Slot(j)]_vars

\* C19 happens: two platform requests in flight together, with different
\* chats and different completions, each delivered its own.
C19_Witness ==
    \E i, j \in Reqs :
        /\ Len(sent[i]) = 1 /\ Len(sent[j]) = 1
        /\ sent[i][1].chat_id # sent[j][1].chat_id
        /\ sent[i][1].text # sent[j][1].text
        /\ OwnArguments(i) /\ OwnArguments(j)
        /\ pc[i] = "await_telegram_api"
        /\ pc[j] = "responded"

\* What a single application of the gate makes of request i.
SingleGate(i) == validator(request[i].credentials, env.API_TOKEN)

\* Request i's time at the gate is over: it was answered there or let
\* through to its route.
GateDone(i) == pc[i] \notin {"idle", "auth"}

\* C21: in main's wiring the gate guards every route: a webhook request
\* without a valid bearer token never reaches telegram_webhook and causes no
\* outbound call, and a /chat request, which passes the gate twice, is let
\* through or answered exactly as one application of the gate would.
C21_GateGuardsEveryRoute ==
    \A i \in Reqs :
        (wiring = Production /\ pc[i] # "idle") =>
            /\ (request[i].route = "telegram" /\ BadToken(i)) =>
                   /\ pc[i] \in {"auth", "responded"}
                   /\ ~BodyRead(i)
                   /\ ~handled[i]
                   /\ ~Entered(i, "VALIDATE")
                   /\ asked[i] = <<>> /\ sent[i] = <<>> /\ posts[i] = <<>>
                   /\ pc[i] = "responded" => response[i] = Some(SingleGate(i).response)
            /\ (request[i].route = "chat" /\ GateDone(i)) =>
                   /\ PassedGate(i) <=> SingleGate(i).ok
                   /\ StoppedAtGate(i) <=> ~SingleGate(i).ok
                   /\ PassedGate(i) => gates[i] = 0
                   /\ StoppedAtGate(i) => response[i] = Some(SingleGate(i).response)

\* C21 happens: side by side in main's wiring, a /chat request with the
\* right token went through both runs of the validator to its handler, and
\* a webhook request without a token was answered by the gate.
C21_Witness ==
    \E i, j \in Reqs :
        /\ wiring = Production
        /\ request[i].route = "chat"
        /\ Gates(wiring, "chat") = 2
        /\ request[i].credentials = env.API_TOKEN
        /\ gates[i] = 0
        /\ Entered(i, "VALIDATE")
        /\ request[j].route = "telegram"
        /\ request[j].credentials = None
        /\ StoppedAtGate(j)
        /\ response[j] = Some(Response(400, "No Bearer Header"))

====
